---- MODULE Spec2Model ----
(***************************************************************************)
(* Model of class DisjointSet (src/cpplib/djset.cpp): a union-find with    *)
(* path compression and union by rank, its spatial constructors, the bulk  *)
(* edge ingestion add_edges and the query methods.                         *)
(*                                                                         *)
(* The three raw arrays parent, rank and size are functions over the cells *)
(* a call can address.  In a well-formed object these are the cells        *)
(* 0..n-1.  The C++ code indexes the arrays without any bounds check, so   *)
(* a call with an index outside [0, n) reads and writes memory next to     *)
(* the arrays: Heap below adds those cells, with arbitrary contents, to    *)
(* the functions for the duration of such a call.                          *)
(***************************************************************************)
EXTENDS Integers, Sequences, FiniteSets

\* Largest element count n passed to the plain constructor.
MaxN == 4
\* Longest neighbour array passed to add_edges.
MaxLen == 2
\* Most points (rows) and most dimensions (columns) of an array passed to a
\* spatial constructor.
MaxRows == 3
MaxCols == 2
\* The coordinates and thresholds passed.  All are finite floats whose
\* differences, squares and sums the float operations of the constructors
\* compute exactly, so those operations are the integer ones here.
Coords == {0, 1}
Thresholds == {-1, 0, 1}

VARIABLES
    n,           \* uint32_t n: number of elements
    parent,      \* int* parent
    rank,        \* int* rank
    size,        \* int* size
    components,  \* uint32_t components, stored as its image under static_cast<int>
    last,        \* the last call made on the object and what it returned
    unions,      \* history: number of unite calls that returned true so far
    health,      \* "none" before construction, then "ok", "crashed" or "corrupted"
    input,       \* the array and threshold given to a spatial constructor
    mirror,      \* a second object, fed the same unions with arguments swapped
    threads,     \* per thread, the frames of the call it is running step by step
    lock         \* the callers' mutex: whether they use one, and the thread holding it

vars ==
    <<n, parent, rank, size, components, last, unions, health, input, mirror,
      threads, lock>>

\* The indices of an object with k elements.
Idx(k) == 0 .. (k - 1)

\* The four data members as one value.
Obj(p, r, s, c) == [parent |-> p, rank |-> r, size |-> s, components |-> c]

This == Obj(parent, rank, size, components)

-----------------------------------------------------------------------------
(* DisjointSet(int n), lines 11-21 *)

New(k) == Obj([i \in Idx(k) |-> i], [i \in Idx(k) |-> 0], [i \in Idx(k) |-> 1], k)

-----------------------------------------------------------------------------
(* int find(int x), lines 133-138.                                         *)
(* The recursion is followed call by call.  fuel is the number of nested   *)
(* calls the stack still has room for; a chain that never reaches a root   *)
(* exhausts it ("overflow").  A cell outside the addressable ones faults   *)
(* ("segv").                                                               *)

RECURSIVE findRec(_, _, _)

\* Mutant of findRec: the compression assignment written the wrong way
\* round, parent[find(parent[x])] = x.
findRec_swapped(P, x, fuel) ==
    IF x \notin DOMAIN P THEN [status |-> "segv", parent |-> P, ret |-> x]
    ELSE IF fuel = 0 THEN [status |-> "overflow", parent |-> P, ret |-> x]
    ELSE IF P[x] /= x THEN
        LET r == findRec(P, P[x], fuel - 1) IN
        IF r.status /= "ok" THEN r
        ELSE [status |-> "ok",
              parent |-> [r.parent EXCEPT ![r.ret] = x],
              ret    |-> r.parent[x]]
    ELSE [status |-> "ok", parent |-> P, ret |-> P[x]]

\* Mutant of findRec: the old parent is returned instead of the root.
findRec_oldParent(P, x, fuel) ==
    IF x \notin DOMAIN P THEN [status |-> "segv", parent |-> P, ret |-> x]
    ELSE IF fuel = 0 THEN [status |-> "overflow", parent |-> P, ret |-> x]
    ELSE IF P[x] /= x THEN
        LET r == findRec(P, P[x], fuel - 1) IN
        IF r.status /= "ok" THEN r
        ELSE [status |-> "ok",
              parent |-> [r.parent EXCEPT ![x] = r.ret],
              ret    |-> P[x]]
    ELSE [status |-> "ok", parent |-> P, ret |-> P[x]]

\* Mutant of findRec: no path compression, the root is only looked up.
findRec_noCompress(P, x, fuel) ==
    IF x \notin DOMAIN P THEN [status |-> "segv", parent |-> P, ret |-> x]
    ELSE IF fuel = 0 THEN [status |-> "overflow", parent |-> P, ret |-> x]
    ELSE IF P[x] /= x THEN findRec(P, P[x], fuel - 1)
    ELSE [status |-> "ok", parent |-> P, ret |-> P[x]]

findRec(P, x, fuel) ==
    IF x \notin DOMAIN P THEN [status |-> "segv", parent |-> P, ret |-> x]
    ELSE IF fuel = 0 THEN [status |-> "overflow", parent |-> P, ret |-> x]
    ELSE IF P[x] /= x THEN
        LET r == findRec(P, P[x], fuel - 1) IN
        IF r.status /= "ok" THEN r
        ELSE [status |-> "ok",
              parent |-> [r.parent EXCEPT ![x] = r.ret],   \* path compression
              ret    |-> r.ret]                            \* return parent[x]
    ELSE [status |-> "ok", parent |-> P, ret |-> P[x]]

\* Nested calls available to find: one more than there are cells, so every
\* chain that ends in a root fits and only a cyclic chain runs out.
Fuel(P) == Cardinality(DOMAIN P) + 1

find(P, x) == findRec(P, x, Fuel(P))

-----------------------------------------------------------------------------
(* bool unite(int x, int y), lines 140-160 *)

\* Mutant of merge: components-- missing when rx goes under ry.
merge_keepCount(m, rx, ry) ==
    IF m.rank[rx] < m.rank[ry] THEN
        [m EXCEPT !.parent[rx] = ry,
                  !.size[ry] = m.size[ry] + m.size[rx]]
    ELSE IF m.rank[rx] > m.rank[ry] THEN
        [m EXCEPT !.parent[ry] = rx,
                  !.size[rx] = m.size[rx] + m.size[ry],
                  !.components = m.components - 1]
    ELSE
        [m EXCEPT !.parent[ry] = rx,
                  !.size[rx] = m.size[rx] + m.size[ry],
                  !.rank[rx] = m.rank[rx] + 1,
                  !.components = m.components - 1]

\* Mutant of merge: the absorbed size is not added when ry goes under rx
\* with a smaller rank.
merge_sizeLost(m, rx, ry) ==
    IF m.rank[rx] < m.rank[ry] THEN
        [m EXCEPT !.parent[rx] = ry,
                  !.size[ry] = m.size[ry] + m.size[rx],
                  !.components = m.components - 1]
    ELSE IF m.rank[rx] > m.rank[ry] THEN
        [m EXCEPT !.parent[ry] = rx,
                  !.components = m.components - 1]
    ELSE
        [m EXCEPT !.parent[ry] = rx,
                  !.size[rx] = m.size[rx] + m.size[ry],
                  !.rank[rx] = m.rank[rx] + 1,
                  !.components = m.components - 1]

\* Mutant of merge: the ranks are not compared, ry always goes under rx.
merge_ignoreRank(m, rx, ry) ==
    IF m.rank[rx] = m.rank[ry] THEN
        [m EXCEPT !.parent[ry] = rx,
                  !.size[rx] = m.size[rx] + m.size[ry],
                  !.rank[rx] = m.rank[rx] + 1,
                  !.components = m.components - 1]
    ELSE
        [m EXCEPT !.parent[ry] = rx,
                  !.size[rx] = m.size[rx] + m.size[ry],
                  !.components = m.components - 1]

\* Mutant of merge: rank[rx]++ missing on a tie.
merge_noRankBump(m, rx, ry) ==
    IF m.rank[rx] < m.rank[ry] THEN
        [m EXCEPT !.parent[rx] = ry,
                  !.size[ry] = m.size[ry] + m.size[rx],
                  !.components = m.components - 1]
    ELSE
        [m EXCEPT !.parent[ry] = rx,
                  !.size[rx] = m.size[rx] + m.size[ry],
                  !.components = m.components - 1]

\* Mutant of merge: rank[rx]++ also when rank[rx] > rank[ry].
merge_rankAlways(m, rx, ry) ==
    IF m.rank[rx] < m.rank[ry] THEN
        [m EXCEPT !.parent[rx] = ry,
                  !.size[ry] = m.size[ry] + m.size[rx],
                  !.components = m.components - 1]
    ELSE
        [m EXCEPT !.parent[ry] = rx,
                  !.size[rx] = m.size[rx] + m.size[ry],
                  !.rank[rx] = m.rank[rx] + 1,
                  !.components = m.components - 1]

\* lines 146-159: the merge of two distinct roots rx, ry
merge(m, rx, ry) ==
    IF m.rank[rx] < m.rank[ry] THEN
        [m EXCEPT !.parent[rx] = ry,
                  !.size[ry] = m.size[ry] + m.size[rx],
                  !.components = m.components - 1]
    ELSE IF m.rank[rx] > m.rank[ry] THEN
        [m EXCEPT !.parent[ry] = rx,
                  !.size[rx] = m.size[rx] + m.size[ry],
                  !.components = m.components - 1]
    ELSE
        [m EXCEPT !.parent[ry] = rx,
                  !.size[rx] = m.size[rx] + m.size[ry],
                  !.rank[rx] = m.rank[rx] + 1,
                  !.components = m.components - 1]

\* Mutant of unite: the test rx == ry of line 144 is missing.
unite_noCheck(m, x, y) ==
    LET fx == find(m.parent, x) IN
    IF fx.status /= "ok"
    THEN [status |-> fx.status, obj |-> [m EXCEPT !.parent = fx.parent], ret |-> FALSE]
    ELSE
    LET fy == find(fx.parent, y) IN
    IF fy.status /= "ok"
    THEN [status |-> fy.status, obj |-> [m EXCEPT !.parent = fy.parent], ret |-> FALSE]
    ELSE
    [status |-> "ok",
     obj |-> merge([m EXCEPT !.parent = fy.parent], fx.ret, fy.ret),
     ret |-> TRUE]

\* Mutant of unite: y itself is taken for its root (int ry = y).
unite_rawY(m, x, y) ==
    LET fx == find(m.parent, x) IN
    IF fx.status /= "ok"
    THEN [status |-> fx.status, obj |-> [m EXCEPT !.parent = fx.parent], ret |-> FALSE]
    ELSE
    LET m2 == [m EXCEPT !.parent = fx.parent]
        rx == fx.ret
        ry == y
    IN  IF rx = ry
        THEN [status |-> "ok", obj |-> m2, ret |-> FALSE]
        ELSE [status |-> "ok", obj |-> merge(m2, rx, ry), ret |-> TRUE]

unite(m, x, y) ==
    LET fx == find(m.parent, x) IN
    IF fx.status /= "ok"
    THEN [status |-> fx.status, obj |-> [m EXCEPT !.parent = fx.parent], ret |-> FALSE]
    ELSE
    LET fy == find(fx.parent, y) IN
    IF fy.status /= "ok"
    THEN [status |-> fy.status, obj |-> [m EXCEPT !.parent = fy.parent], ret |-> FALSE]
    ELSE
    LET m2 == [m EXCEPT !.parent = fy.parent]
        rx == fx.ret
        ry == fy.ret
    IN  IF rx = ry
        THEN [status |-> "ok", obj |-> m2, ret |-> FALSE]
        ELSE [status |-> "ok", obj |-> merge(m2, rx, ry), ret |-> TRUE]

-----------------------------------------------------------------------------
(* The query methods, lines 162-191 *)

\* int get_component_rank(int x), lines 162-164
get_component_rank(m, x) ==
    LET f == find(m.parent, x) IN
    [status |-> f.status, obj |-> [m EXCEPT !.parent = f.parent],
     ret |-> IF f.status = "ok" THEN m.rank[f.ret] ELSE 0]

\* int get_component_size(int x), lines 166-168
get_component_size(m, x) ==
    LET f == find(m.parent, x) IN
    [status |-> f.status, obj |-> [m EXCEPT !.parent = f.parent],
     ret |-> IF f.status = "ok" THEN m.size[f.ret] ELSE 0]

\* int get_component_number(), lines 170-172
get_component_number(m) == m.components

\* lines 178-180 and 187-189: find(i) for i = from .. k-1, in order; the
\* results are appended to acc.
RECURSIVE findAll(_, _, _, _)
findAll(P, from, k, acc) ==
    IF from >= k THEN [status |-> "ok", parent |-> P, ret |-> acc]
    ELSE LET f == find(P, from) IN
         IF f.status /= "ok" THEN [status |-> f.status, parent |-> f.parent, ret |-> acc]
         ELSE findAll(f.parent, from + 1, k, Append(acc, f.ret))

\* py::array_t<int> get_ancestors(), lines 174-183
get_ancestors(m, k) ==
    LET f == findAll(m.parent, 0, k, <<>>) IN
    [status |-> f.status, obj |-> [m EXCEPT !.parent = f.parent], ret |-> f.ret]

\* The elements of a finite set of integers in ascending order: the iteration
\* order of std::set<int>, line 190.
RECURSIVE Ascending(_)
Ascending(S) ==
    IF S = {} THEN <<>>
    ELSE LET lo == CHOOSE v \in S : \A w \in S : v <= w
         IN  <<lo>> \o Ascending(S \ {lo})

\* Mutant of get_unique_ancestors: the roots are collected in a vector, one
\* per element, instead of a std::set.
get_unique_ancestors_vector(m, k) ==
    LET f == findAll(m.parent, 0, k, <<>>) IN
    [status |-> f.status, obj |-> [m EXCEPT !.parent = f.parent], ret |-> f.ret]

\* std::vector<int> get_unique_ancestors(), lines 185-191
get_unique_ancestors(m, k) ==
    LET f == findAll(m.parent, 0, k, <<>>) IN
    [status |-> f.status, obj |-> [m EXCEPT !.parent = f.parent],
     ret |-> Ascending({f.ret[i] : i \in 1 .. Len(f.ret)})]

-----------------------------------------------------------------------------
(* void add_edges(uint32_t a, py::array_t<uint32_t> b_array,               *)
(*                uint32_t b_array_size), lines 113-124.                   *)
(* The array argument is [ndim, shape0, stride, mem]: its number of        *)
(* dimensions, its first extent, the distance in words from one entry to   *)
(* the next, and the words found from buf.ptr on, which is what ptr[i]     *)
(* reads.  py::array_t<uint32_t> accepts an array of any stride; for a     *)
(* contiguous array (stride 1) the words are its entries.  An index        *)
(* arrives as uint32_t and is passed on as int: -1 stands for the indices  *)
(* below 0 after that conversion.                                          *)

\* The entry numpy shows at [i] of a one-dimensional array
entryAt(arr, i) == arr.mem[i * arr.stride + 1]

\* lines 120-123: unite(a, ptr[i]) for i = from .. b_array_size-1 (mem is
\* 1-based, ptr[i] is mem[i + 1]); merged counts the calls that returned true.
RECURSIVE addLoop(_, _, _, _, _, _)
addLoop(m, a, mem, i, b_array_size, merged) ==
    IF i >= b_array_size THEN [status |-> "ok", obj |-> m, merged |-> merged]
    ELSE IF i + 1 \notin DOMAIN mem THEN [status |-> "segv", obj |-> m, merged |-> merged]
    ELSE LET u == unite(m, a, mem[i + 1]) IN
         IF u.status /= "ok"
         THEN [status |-> u.status, obj |-> u.obj, merged |-> merged]
         ELSE addLoop(u.obj, a, mem, i + 1, b_array_size,
                      IF u.ret THEN merged + 1 ELSE merged)

add_edges(m, a, arr, b_array_size) ==
    IF arr.ndim /= 1 \/ arr.shape0 /= b_array_size
    THEN [status |-> "runtime_error", obj |-> m, merged |-> 0]
    ELSE addLoop(m, a, arr.mem, 0, b_array_size, 0)

-----------------------------------------------------------------------------
(* The spatial constructors, lines 23-62 and 64-105.                       *)
(* The array argument is [ndim, rows, cols, at, order]: its number of      *)
(* dimensions, its shape, at[<<i, k>>] the element numpy shows at [i, k],  *)
(* and the order in which its elements lie in memory, row by row ("C") or  *)
(* column by column ("F").  py::array_t<float> accepts either order.       *)

\* buf(i, k) of mutable_unchecked<2>, line 47: the element at [i, k]
bufAt(arr, i, k) == arr.at[<<i, k>>]

\* The float lying m floats after buf.ptr
memAt(arr, m) ==
    IF arr.order = "C"
    THEN arr.at[<<m \div arr.cols, m % arr.cols>>]
    ELSE arr.at[<<m % arr.rows, m \div arr.rows>>]

\* ptr[i * cols + k], line 90
ptrAt(arr, cols, i, k) == memAt(arr, i * cols + k)

\* lines 46-54 and 89-97: the squared distance of rows i and j of X summed
\* from dimension k on, left as soon as it exceeds the squared threshold
RECURSIVE accumulate(_, _, _, _, _, _, _)
accumulate(X, i, j, k, cols, dist, t) ==
    IF k >= cols THEN dist
    ELSE LET diff == X[<<i, k>>] - X[<<j, k>>]
             d2   == dist + diff * diff
         IN  IF d2 > t * t THEN d2
             ELSE accumulate(X, i, j, k + 1, cols, d2, t)

\* lines 42-61 and 85-104: the loops over the pairs i < j, from (i, j) on.
\* called collects the pairs unite was called on, merged counts the calls
\* that returned true.
RECURSIVE pairLoop(_, _, _, _, _, _, _)
pairLoop(acc, X, i, j, rows, cols, t) ==
    IF acc.status /= "ok" \/ i >= rows THEN acc
    ELSE IF j >= rows THEN pairLoop(acc, X, i + 1, i + 2, rows, cols, t)
    ELSE IF accumulate(X, i, j, 0, cols, 0, t) <= t * t
    THEN LET u == unite(acc.obj, i, j) IN
         pairLoop([status |-> u.status, obj |-> u.obj,
                   merged |-> IF u.ret THEN acc.merged + 1 ELSE acc.merged,
                   called |-> acc.called \cup {<<i, j>>}],
                  X, i, j + 1, rows, cols, t)
    ELSE pairLoop(acc, X, i, j + 1, rows, cols, t)

\* lines 29-61 and 72-104: n singletons, then the pair loops
build(X, rows, cols, t) ==
    pairLoop([status |-> "ok", obj |-> New(rows), merged |-> 0, called |-> {}],
             X, 0, 1, rows, cols, t)

\* No object comes out of a constructor that throws.
Thrown(what) == [status |-> what, obj |-> New(0), merged |-> 0, called |-> {}]

\* DisjointSet(py::array_t<float> array, float unit_dist_threshold),
\* lines 23-62; mutable_unchecked<2>() throws for any other dimension count
new_points(arr, t) ==
    IF arr.ndim /= 2 THEN Thrown("domain_error")
    ELSE build([c \in Idx(arr.rows) \X Idx(arr.cols) |-> bufAt(arr, c[1], c[2])],
               arr.rows, arr.cols, t)

\* DisjointSet(py::array_t<float> array, uint32_t rows, uint32_t cols,
\* float unit_dist_threshold), lines 64-105
new_points_shaped(arr, rows, cols, t) ==
    IF arr.ndim /= 2 \/ arr.rows /= rows \/ arr.cols /= cols
    THEN Thrown("runtime_error")
    ELSE build([c \in Idx(rows) \X Idx(cols) |-> ptrAt(arr, cols, c[1], c[2])],
               rows, cols, t)

-----------------------------------------------------------------------------
(* The object in use: one action per public method, called with indices    *)
(* in [0, n).  Each action binds the outcome of its call once and stores   *)
(* it.                                                                     *)

\* What the last call leaves behind: the method, how it ended, and for unite
\* the boolean it returned.  (What each method returns for each argument is
\* read off the operators above, in every reachable state.)
Call(op, status, retb) ==
    [op |-> op, status |-> status, retb |-> retb, inrange |-> TRUE]

\* The same for a call given an index outside [0, n)
CallOut(op, status, retb) ==
    [op |-> op, status |-> status, retb |-> retb, inrange |-> FALSE]

\* The process after a call that ended with `status`: an exception leaves it
\* running, a fault or a stack overflow ends it.
After(status) ==
    IF status \in {"ok", "runtime_error"} THEN "ok" ELSE "crashed"

\* The data members after a call
Store(m) ==
    /\ parent' = m.parent
    /\ rank' = m.rank
    /\ size' = m.size
    /\ components' = m.components

\* All sequences over S of length at most k
SeqsUpTo(S, k) == UNION {[1 .. l -> S] : l \in 0 .. k}

\* The plain constructor takes no array.
NoInput == [ndim |-> 0]

\* The callers use no mutex.
NoMutex == [used |-> FALSE, holder |-> 0]

\* new(n), for every n up to MaxN
NewObject ==
    \E k \in 0 .. MaxN :
        /\ n = k
        /\ parent = New(k).parent
        /\ rank = New(k).rank
        /\ size = New(k).size
        /\ components = New(k).components
        /\ last = Call("new", "ok", FALSE)
        /\ unions = 0
        /\ health = "ok"
        /\ input = NoInput
        /\ mirror = New(k)

\* The object used through whole calls, by one caller without a mutex
Init ==
    /\ NewObject
    /\ threads = <<>>
    /\ lock = NoMutex

Find(x) ==
    /\ health = "ok"
    /\ \E f \in {find(parent, x)} :
       /\ parent' = f.parent
       /\ last' = Call("find", f.status, FALSE)
       /\ health' = After(f.status)
    /\ UNCHANGED <<n, rank, size, components, unions, input, mirror, threads, lock>>

Unite(x, y) ==
    /\ health = "ok"
    /\ \E u \in {unite(This, x, y)} :
       /\ Store(u.obj)
       /\ last' = Call("unite", u.status, u.ret)
       /\ unions' = IF u.ret THEN unions + 1 ELSE unions
       /\ health' = After(u.status)
    /\ UNCHANGED <<n, input, mirror, threads, lock>>

AddEdges(a, arr, b_array_size) ==
    /\ health = "ok"
    /\ \E r \in {add_edges(This, a, arr, b_array_size)} :
       /\ Store(r.obj)
       /\ last' = Call("add_edges", r.status, FALSE)
       /\ unions' = unions + r.merged
       /\ health' = After(r.status)
    /\ UNCHANGED <<n, input, mirror, threads, lock>>

GetComponentRank(x) ==
    /\ health = "ok"
    /\ \E q \in {get_component_rank(This, x)} :
       /\ Store(q.obj)
       /\ last' = Call("get_component_rank", q.status, FALSE)
       /\ health' = After(q.status)
    /\ UNCHANGED <<n, unions, input, mirror, threads, lock>>

GetComponentSize(x) ==
    /\ health = "ok"
    /\ \E q \in {get_component_size(This, x)} :
       /\ Store(q.obj)
       /\ last' = Call("get_component_size", q.status, FALSE)
       /\ health' = After(q.status)
    /\ UNCHANGED <<n, unions, input, mirror, threads, lock>>

GetComponentNumber ==
    /\ health = "ok"
    /\ last' = Call("get_component_number", "ok", FALSE)
    /\ UNCHANGED <<n, parent, rank, size, components, unions, health, input, mirror, threads, lock>>

GetAncestors ==
    /\ health = "ok"
    /\ \E q \in {get_ancestors(This, n)} :
       /\ Store(q.obj)
       /\ last' = Call("get_ancestors", q.status, FALSE)
       /\ health' = After(q.status)
    /\ UNCHANGED <<n, unions, input, mirror, threads, lock>>

GetUniqueAncestors ==
    /\ health = "ok"
    /\ \E q \in {get_unique_ancestors(This, n)} :
       /\ Store(q.obj)
       /\ last' = Call("get_unique_ancestors", q.status, FALSE)
       /\ health' = After(q.status)
    /\ UNCHANGED <<n, unions, input, mirror, threads, lock>>

\* The arrays a caller passes to add_edges, with entries from S: the
\* one-dimensional arrays of at most MaxLen entries, and two-dimensional ones
\* of up to MaxLen rows (rejected at line 115 before their words are read).
Arrays(S) ==
    {[ndim |-> 1, shape0 |-> Len(mem), stride |-> 1, mem |-> mem] :
        mem \in SeqsUpTo(S, MaxLen)}
    \cup {[ndim |-> 2, shape0 |-> r, stride |-> 1, mem |-> <<>>] : r \in 0 .. MaxLen}

\* The arrays passed with a declared size that may differ from their extent:
\* those of at most one entry.
ShortArrays(S) == {arr \in Arrays(S) : Len(arr.mem) <= 1}

Next ==
    \/ \E x \in Idx(n) : Find(x)
    \/ \E x, y \in Idx(n) : Unite(x, y)
    \/ \E a \in Idx(n), arr \in Arrays(Idx(n)) : AddEdges(a, arr, arr.shape0)
    \/ \E a \in Idx(n), arr \in ShortArrays(Idx(n)), sz \in 0 .. MaxLen :
          AddEdges(a, arr, sz)
    \/ \E x \in Idx(n) : GetComponentRank(x)
    \/ \E x \in Idx(n) : GetComponentSize(x)
    \/ GetComponentNumber
    \/ GetAncestors
    \/ GetUniqueAncestors

Spec == Init /\ [][Next]_vars

-----------------------------------------------------------------------------
(* Vocabulary of the properties.  None of it is taken from the code: the   *)
(* root of an element is defined by walking parent, without compression.   *)

\* The cell reached from i by following parent k times
RECURSIVE Up(_, _, _)
Up(P, i, k) == IF k = 0 THEN i ELSE Up(P, P[i], k - 1)

IsRoot(P, r) == P[r] = r

\* The end of i's parent chain (in a forest over DOMAIN P)
RootOf(P, i) == Up(P, i, Cardinality(DOMAIN P))

Roots(P) == {r \in DOMAIN P : IsRoot(P, r)}

\* The elements whose parent chain ends at r
Members(P, r) == {i \in DOMAIN P : RootOf(P, i) = r}

\* The partition of the elements into components
Components(P) == {Members(P, r) : r \in Roots(P)}

RECURSIVE SumOver(_, _)
SumOver(f, S) ==
    IF S = {} THEN 0
    ELSE LET v == CHOOSE w \in S : TRUE IN f[v] + SumOver(f, S \ {v})

\* parent is a forest over 0..n-1
Forest(P, k) ==
    /\ P \in [Idx(k) -> Idx(k)]
    /\ \A i \in Idx(k) : \E j \in 0 .. (k - 1) : IsRoot(P, Up(P, i, j))
    /\ \A i \in Idx(k) : \A j \in 1 .. k : Up(P, i, j) = i => IsRoot(P, i)

-----------------------------------------------------------------------------
(* Properties of the object called with indices in [0, n) *)

\* C1: in every reachable state the value get_component_number() returns
\* equals the number of indices i in 0..n-1 with parent[i] = i.
C1_CountIsNumberOfRoots ==
    get_component_number(This) = Cardinality({i \in Idx(n) : parent[i] = i})

\* a unite has merged two components and more than one root is left
C1_Witness ==
    /\ last.op = "unite" /\ last.retb
    /\ unions >= 2
    /\ Cardinality(Roots(parent)) >= 2

\* C2: in every reachable state size[r] of every root r is the number of
\* elements whose parent chain ends at r, and the sizes of the roots sum to n.
C2_SizeIsCardinality ==
    /\ Forest(parent, n)
    /\ \A r \in Roots(parent) : size[r] = Cardinality(Members(parent, r))
    /\ SumOver(size, Roots(parent)) = n

\* two components of more than one element each
C2_Witness ==
    /\ Forest(parent, n)
    /\ \E r1, r2 \in Roots(parent) : r1 /= r2 /\ size[r1] >= 2 /\ size[r2] >= 2

\* C3: in every reachable state parent is a forest: every element reaches a
\* root in at most n-1 steps, and the only cycles are the roots' self-loops.
C3_ParentIsForest == Forest(parent, n)

\* a chain of two edges exists, after a find
C3_Witness ==
    /\ last.op = "find"
    /\ \E i \in Idx(n) : parent[i] /= i /\ parent[parent[i]] /= parent[i]

\* C4: get_component_number() = n - (number of unite calls that returned
\* true); unite returns true exactly when its arguments are in different
\* components, and then lowers the count by exactly 1, and otherwise leaves it.
C4_CountAfterUnions ==
    /\ get_component_number(This) = n - unions
    /\ \A x, y \in Idx(n) :
         LET u == unite(This, x, y) IN
         /\ u.status = "ok"
         /\ u.ret <=> (RootOf(parent, x) /= RootOf(parent, y))
         /\ u.ret => get_component_number(u.obj) = get_component_number(This) - 1
         /\ ~u.ret => get_component_number(u.obj) = get_component_number(This)

\* some unite calls returned true and the last one returned false
C4_Witness ==
    /\ last.op = "unite" /\ ~last.retb
    /\ unions >= 2

\* C6: unite(x, y) called when x and y have the same root returns false and
\* leaves components, every size, every rank and every element's component
\* unchanged.
C6_ReunionChangesNothing ==
    \A x, y \in Idx(n) :
        RootOf(parent, x) = RootOf(parent, y) =>
            LET u == unite(This, x, y) IN
            /\ u.status = "ok"
            /\ u.ret = FALSE
            /\ u.obj.components = components
            /\ u.obj.size = size
            /\ u.obj.rank = rank
            /\ \A i \in Idx(n) : RootOf(u.obj.parent, i) = RootOf(parent, i)

\* a unite has returned false, and another re-union of two distinct
\* elements is possible that compresses a path
C6_Witness ==
    /\ last.op = "unite" /\ ~last.retb
    /\ \E x, y \in Idx(n) :
         /\ x /= y
         /\ RootOf(parent, x) = RootOf(parent, y)
         /\ unite(This, x, y).obj.parent /= parent

\* C7: find(x) returns the root r at the end of x's parent chain, with
\* parent[r] = r; it changes no element's root, so a further find of any
\* element, and then find(x) again, returns the same r.
C7_FindIsStable ==
    \A x \in Idx(n) :
        LET f == find(parent, x) IN
        /\ f.status = "ok"
        /\ f.ret = RootOf(parent, x)
        /\ f.parent[f.ret] = f.ret
        /\ \A i \in Idx(n) : RootOf(f.parent, i) = RootOf(parent, i)
        /\ \A z \in Idx(n) :
             LET g == find(f.parent, z) IN
             /\ g.status = "ok"
             /\ find(g.parent, x).ret = f.ret

\* a find has run, and a chain of two edges is left for the next one
C7_Witness ==
    /\ last.op = "find"
    /\ \E x \in Idx(n) : find(parent, x).parent /= parent

-----------------------------------------------------------------------------
(* Two objects built by new(n) and fed the same sequence of unite calls,   *)
(* the second one with the arguments of any of the calls swapped.          *)

UnitePair(x, y, swap) ==
    /\ health = "ok"
    /\ \E u \in {unite(This, x, y)} :
       \E v \in {IF swap THEN unite(mirror, y, x) ELSE unite(mirror, x, y)} :
       /\ Store(u.obj)
       /\ mirror' = v.obj
       /\ last' = Call("unite", u.status, u.ret)
       /\ unions' = IF u.ret THEN unions + 1 ELSE unions
       /\ health' = IF v.status = "ok" THEN After(u.status) ELSE After(v.status)
    /\ UNCHANGED <<n, input, threads, lock>>

NextSym == \E x, y \in Idx(n), swap \in BOOLEAN : UnitePair(x, y, swap)

SpecSym == Init /\ [][NextSym]_vars

\* C8: after any sequence of unite calls, the object that got some of them
\* as unite(y, x) has the same components, the same component count and the
\* same size for every component, whichever roots survive.
C8_SwappedUnionsAgree ==
    /\ Forest(parent, n) /\ Forest(mirror.parent, n)
    /\ Components(mirror.parent) = Components(parent)
    /\ get_component_number(mirror) = get_component_number(This)
    /\ \A i \in Idx(n) :
         mirror.size[RootOf(mirror.parent, i)] = size[RootOf(parent, i)]

\* the two objects hold the same components under different roots
C8_Witness ==
    /\ last.op = "unite"
    /\ unions >= 2
    /\ \E i \in Idx(n) : RootOf(mirror.parent, i) /= RootOf(parent, i)

-----------------------------------------------------------------------------
(* An object built by a spatial constructor, and then queried.             *)

\* The arrays passed: two-dimensional ones of every shape up to MaxRows by
\* MaxCols in either memory order, and one-dimensional ones.
PointArrays ==
    UNION {
        {[ndim |-> 2, rows |-> r, cols |-> c, at |-> a, order |-> o] :
            a \in [Idx(r) \X Idx(c) -> Coords], o \in {"C", "F"}} :
        r \in 0 .. MaxRows, c \in 0 .. MaxCols}
    \cup
    UNION {
        {[ndim |-> 1, rows |-> r, cols |-> 1, at |-> a, order |-> "C"] :
            a \in [Idx(r) \X Idx(1) -> Coords]} :
        r \in 0 .. 1}

InitSpatial ==
    /\ input \in {[arr |-> arr, t |-> t] : arr \in PointArrays, t \in Thresholds}
    /\ n = 0
    /\ parent = New(0).parent
    /\ rank = New(0).rank
    /\ size = New(0).size
    /\ components = New(0).components
    /\ last = Call("none", "ok", FALSE)
    /\ unions = 0
    /\ health = "none"
    /\ mirror = New(0)
    /\ threads = <<>>
    /\ lock = NoMutex

\* What a constructor leaves behind: how it ended and the pairs it called
\* unite on.
Built(op, status, called) ==
    [op |-> op, status |-> status, retb |-> FALSE, inrange |-> TRUE,
     called |-> called]

\* new(points, threshold)
NewPoints ==
    /\ health = "none"
    /\ \E b \in {new_points(input.arr, input.t)} :
       /\ Store(b.obj)
       /\ n' = IF b.status = "ok" THEN input.arr.rows ELSE 0
       /\ last' = Built("new_points", b.status, b.called)
       /\ unions' = b.merged
       /\ health' = IF b.status = "ok" THEN "ok" ELSE "none"
    /\ UNCHANGED <<input, mirror, threads, lock>>

\* new(points, rows, cols, threshold)
NewPointsShaped(rows, cols) ==
    /\ health = "none"
    /\ \E b \in {new_points_shaped(input.arr, rows, cols, input.t)} :
       /\ Store(b.obj)
       /\ n' = IF b.status = "ok" THEN rows ELSE 0
       /\ last' = Built("new_points_shaped", b.status, b.called)
       /\ unions' = b.merged
       /\ health' = IF b.status = "ok" THEN "ok" ELSE "none"
    /\ UNCHANGED <<input, mirror, threads, lock>>

NextSpatial ==
    \/ NewPoints
    \/ \E r \in 0 .. MaxRows, c \in 0 .. MaxCols : NewPointsShaped(r, c)
    \/ \E x \in Idx(n) : Find(x)
    \/ GetComponentNumber
    \/ GetAncestors

SpecSpatial == InitSpatial /\ [][NextSpatial]_vars

\* The squared distance of points i and j over all dimensions
RECURSIVE SqDist(_, _, _, _)
SqDist(arr, i, j, k) ==
    IF k >= arr.cols THEN 0
    ELSE (arr.at[<<i, k>>] - arr.at[<<j, k>>]) * (arr.at[<<i, k>>] - arr.at[<<j, k>>])
         + SqDist(arr, i, j, k + 1)

\* The threshold graph: points within the threshold of each other
Near(i, j) == SqDist(input.arr, i, j, 0) <= input.t * input.t

\* The points joined to the points of S by a chain of Near pairs
RECURSIVE Chained(_)
Chained(S) ==
    LET T == S \cup {j \in Idx(input.arr.rows) : \E i \in S : Near(i, j)}
    IN  IF T = S THEN S ELSE Chained(T)

\* C5: in an object built by a spatial constructor two points have the same
\* root exactly when a chain of points, each within the threshold of the
\* next, joins them; get_component_number() is the number of components of
\* that graph, 0 for no point and 1 for one point.
C5_SpatialComponents ==
    health = "ok" =>
        /\ n = input.arr.rows
        /\ Forest(parent, n)
        /\ \A i, j \in Idx(n) :
             (RootOf(parent, i) = RootOf(parent, j)) <=> (j \in Chained({i}))
        /\ get_component_number(This) = Cardinality({Chained({i}) : i \in Idx(n)})
        /\ n = 0 => get_component_number(This) = 0
        /\ n = 1 => get_component_number(This) = 1

-----------------------------------------------------------------------------
(* The object called with indices outside [0, n).                          *)
(* No method checks its index (lines 134, 141-142, 163, 167, 121-122), so  *)
(* parent[x], rank[x] and size[x] address memory next to the arrays of     *)
(* lines 12-14.  What such an access does is undefined.  The outcomes      *)
(* modelled: the address is not mapped and the process stops at the first  *)
(* such access ("segv"); or it is mapped and holds some word, the call     *)
(* runs on with it and its writes land there.  The cells below index 0     *)
(* and above index n-1 are represented by the indices -1 and n; within a   *)
(* call all those cells of one array hold the same word g.p, g.r or g.s.   *)

Oob(k) == {-1, k}

Cells(k) == Idx(k) \cup Oob(k)

Garbage(k) == [p : Cells(k), r : {0, 1}, s : {0}]

\* The arrays of m together with the mapped memory next to them
Heap(m, k, g) ==
    Obj([i \in Cells(k) |-> IF i \in Idx(k) THEN m.parent[i] ELSE g.p],
        [i \in Cells(k) |-> IF i \in Idx(k) THEN m.rank[i] ELSE g.r],
        [i \in Cells(k) |-> IF i \in Idx(k) THEN m.size[i] ELSE g.s],
        m.components)

\* The memory a call may find itself in: the arrays alone, with nothing
\* mapped next to them, or the arrays amid mapped memory
Arenas(m, k) == {m} \cup {Heap(m, k, g) : g \in Garbage(k)}

\* The arrays proper, out of the memory a call ran in
ArraysOf(m, k) ==
    Obj([i \in Idx(k) |-> m.parent[i]], [i \in Idx(k) |-> m.rank[i]],
        [i \in Idx(k) |-> m.size[i]], m.components)

\* A call that ran in memory h and left it as a has overwritten memory next
\* to the arrays, or has left an index outside [0, n) in parent.
Damaged(h, a, k) ==
    \/ \E i \in DOMAIN h.parent \ Idx(k) :
          \/ a.parent[i] /= h.parent[i]
          \/ a.rank[i] /= h.rank[i]
          \/ a.size[i] /= h.size[i]
    \/ \E i \in Idx(k) : a.parent[i] \notin Idx(k)

\* The process after such a call: stopped by a fault, running on damaged
\* memory (nothing more is said about it), or running.
AfterOut(status, h, a, k) ==
    IF After(status) /= "ok" THEN "crashed"
    ELSE IF Damaged(h, a, k) THEN "corrupted"
    ELSE "ok"

FindOut(x) ==
    /\ health = "ok"
    /\ \E h \in Arenas(This, n) :
       \E f \in {find(h.parent, x)} :
       /\ Store(ArraysOf([h EXCEPT !.parent = f.parent], n))
       /\ last' = CallOut("find", f.status, FALSE)
       /\ health' = AfterOut(f.status, h, [h EXCEPT !.parent = f.parent], n)
    /\ UNCHANGED <<n, unions, input, mirror, threads, lock>>

UniteOut(x, y) ==
    /\ health = "ok"
    /\ \E h \in Arenas(This, n) :
       \E u \in {unite(h, x, y)} :
       /\ Store(ArraysOf(u.obj, n))
       /\ last' = CallOut("unite", u.status, u.ret)
       /\ unions' = IF u.ret THEN unions + 1 ELSE unions
       /\ health' = AfterOut(u.status, h, u.obj, n)
    /\ UNCHANGED <<n, input, mirror, threads, lock>>

GetComponentRankOut(x) ==
    /\ health = "ok"
    /\ \E h \in Arenas(This, n) :
       \E q \in {get_component_rank(h, x)} :
       /\ Store(ArraysOf(q.obj, n))
       /\ last' = CallOut("get_component_rank", q.status, FALSE)
       /\ health' = AfterOut(q.status, h, q.obj, n)
    /\ UNCHANGED <<n, unions, input, mirror, threads, lock>>

GetComponentSizeOut(x) ==
    /\ health = "ok"
    /\ \E h \in Arenas(This, n) :
       \E q \in {get_component_size(h, x)} :
       /\ Store(ArraysOf(q.obj, n))
       /\ last' = CallOut("get_component_size", q.status, FALSE)
       /\ health' = AfterOut(q.status, h, q.obj, n)
    /\ UNCHANGED <<n, unions, input, mirror, threads, lock>>

AddEdgesOut(a, arr, b_array_size) ==
    /\ health = "ok"
    /\ \E h \in Arenas(This, n) :
       \E r \in {add_edges(h, a, arr, b_array_size)} :
       /\ Store(ArraysOf(r.obj, n))
       /\ last' = CallOut("add_edges", r.status, FALSE)
       /\ unions' = unions + r.merged
       /\ health' = AfterOut(r.status, h, r.obj, n)
    /\ UNCHANGED <<n, input, mirror, threads, lock>>

\* The add_edges calls with a or some neighbour outside [0, n)
OutCalls(k) ==
    {c \in Cells(k) \X Arrays(Cells(k)) :
        c[1] \notin Idx(k) \/ \E i \in DOMAIN c[2].mem : c[2].mem[i] \notin Idx(k)}

NextErr ==
    \/ Next
    \/ \E x \in Oob(n) : FindOut(x)
    \/ \E x, y \in Cells(n) : (x \notin Idx(n) \/ y \notin Idx(n)) /\ UniteOut(x, y)
    \/ \E x \in Oob(n) : GetComponentRankOut(x)
    \/ \E x \in Oob(n) : GetComponentSizeOut(x)
    \/ \E c \in OutCalls(n) : AddEdgesOut(c[1], c[2], c[2].shape0)
    \/ \E c \in OutCalls(n) :
          Len(c[2].mem) <= 1 /\ AddEdgesOut(c[1], c[2], c[2].shape0 + 1)

SpecErr == Init /\ [][NextErr]_vars

\* C9: a find, unite, get_component_rank or get_component_size call given
\* an index outside [0, n) fails with an error, and leaves parent, rank, size
\* and components as they were.
C9_OutOfRangeFailsCleanly ==
    [][ (last'.op \in {"find", "unite", "get_component_rank", "get_component_size"}
         /\ ~last'.inrange)
        => /\ last'.status /= "ok"
           /\ UNCHANGED <<parent, rank, size, components>> ]_vars

\* C10: an add_edges call that fails, or that is given a or a neighbour
\* outside [0, n), has applied no union: components, size, rank and the
\* components of the elements are as before the call.
C10_FailedAddEdgesChangesNothing ==
    [][ (last'.op = "add_edges" /\ (last'.status /= "ok" \/ ~last'.inrange))
        => /\ UNCHANGED <<rank, size, components>>
           /\ parent' \in [Idx(n) -> Idx(n)]
           /\ Components(parent') = Components(parent) ]_vars

\* The part of C10 that the code keeps: a call rejected for its array's
\* dimensions or length (line 115) leaves every data member as it was.
RejectedAddEdgesChangesNothing ==
    [][ (last'.op = "add_edges" /\ last'.status = "runtime_error")
        => UNCHANGED <<parent, rank, size, components>> ]_vars

\* Where the statement of C5 does hold: for every array whose elements lie
\* row by row in memory, whichever constructor built the object.
SpatialComponentsOfRowMajorArrays ==
    input.arr.order = "C" => C5_SpatialComponents

-----------------------------------------------------------------------------
(* add_edges given arrays of any stride.                                   *)

\* The views passed besides the contiguous arrays: every second word of a
\* three-word array (b[::2] in numpy), two entries at stride 2.
Views(S) ==
    {[ndim |-> 1, shape0 |-> 2, stride |-> 2, mem |-> mem] : mem \in [1 .. 3 -> S]}

\* add_edges, with the call's arguments kept in input
AddEdgesLogged(a, arr, b_array_size) ==
    /\ health = "ok"
    /\ \E r \in {add_edges(This, a, arr, b_array_size)} :
       /\ Store(r.obj)
       /\ last' = Call("add_edges", r.status, FALSE)
       /\ unions' = unions + r.merged
       /\ health' = After(r.status)
    /\ input' = [a |-> a, arr |-> arr]
    /\ UNCHANGED <<n, mirror, threads, lock>>

\* The logged calls are made on the objects of fewer than MaxN elements.
NextEdges ==
    \/ \E a \in Idx(n), arr \in Arrays(Idx(n)) \cup Views(Idx(n)) :
          n < MaxN /\ AddEdgesLogged(a, arr, arr.shape0)
    \/ \E x \in Idx(n) : Find(x)

SpecEdges == Init /\ [][NextEdges]_vars

\* The neighbours listed by a one-dimensional array, in sequence order
Entries(arr) == [i \in 1 .. arr.shape0 |-> entryAt(arr, i - 1)]

\* The same neighbours in reverse order, as a contiguous array
Reversed(arr) ==
    [ndim |-> 1, shape0 |-> arr.shape0, stride |-> 1,
     mem |-> [i \in 1 .. arr.shape0 |-> entryAt(arr, arr.shape0 - i)]]

\* unite(a, b) for each b of the sequence bs, in order
RECURSIVE UniteEach(_, _, _)
UniteEach(m, a, bs) ==
    IF bs = <<>> THEN m
    ELSE UniteEach(unite(m, a, Head(bs)).obj, a, Tail(bs))

\* What C11 says of the call add_edges(a, arr, len) that takes the object
\* from m to r.obj
AddEdgesUnites(m, a, arr, r) ==
    LET nb == {entryAt(arr, i) : i \in Idx(arr.shape0)}
        ra == RootOf(m.parent, a)
        joined == {RootOf(m.parent, b) : b \in nb} \cup {ra}
        back == add_edges(m, a, Reversed(arr), arr.shape0)
    IN  /\ r.status = "ok"
        /\ r.obj = UniteEach(m, a, Entries(arr))
        /\ \A b \in nb : RootOf(r.obj.parent, b) = RootOf(r.obj.parent, a)
        /\ \A i \in DOMAIN m.parent :
             RootOf(m.parent, i) \notin joined =>
                 Members(r.obj.parent, RootOf(r.obj.parent, i))
                     = Members(m.parent, RootOf(m.parent, i))
        /\ r.obj.components = m.components - Cardinality(joined \ {ra})
        /\ back.obj.components = r.obj.components
        /\ Components(back.obj.parent) = Components(r.obj.parent)

\* C11: a successful add_edges(a, neighbors, len) with in-range indices
\* applies unite(a, b) for each listed neighbour b in sequence order; after
\* it a and every listed neighbour have the same root, the components that
\* held neither a nor a neighbour are as before, and the count has dropped by
\* the number of distinct components other than a's that the neighbours were
\* in, whatever the order of the neighbours.
C11_AddEdgesUnitesNeighbours ==
    [][ (last'.op = "add_edges" /\ input'.arr.ndim = 1)
        => AddEdgesUnites(This, input'.a, input'.arr,
                          [status |-> last'.status,
                           obj |-> Obj(parent', rank', size', components')]) ]_vars

\* Where the statement of C11 does hold: for every contiguous array, in
\* every reachable state.
AddEdgesOfContiguousArrays ==
    \A a \in Idx(n) :
        \A arr \in {v \in Arrays(Idx(n)) : v.ndim = 1} :
            AddEdgesUnites(This, a, arr, add_edges(This, a, arr, arr.shape0))

-----------------------------------------------------------------------------
(* The results of the queries, in every state reached with indices in      *)
(* [0, n).                                                                 *)

\* C12: in any reachable state get_unique_ancestors() returns a strictly
\* ascending sequence of distinct indices whose set is the set of current
\* roots, so its length is get_component_number().
C12_UniqueAncestorsAreTheRoots ==
    \A q \in {get_unique_ancestors(This, n)} :
        /\ q.status = "ok"
        /\ \A i, j \in 1 .. Len(q.ret) : i < j => q.ret[i] < q.ret[j]
        /\ {q.ret[i] : i \in 1 .. Len(q.ret)} = {RootOf(parent, i) : i \in Idx(n)}
        /\ {q.ret[i] : i \in 1 .. Len(q.ret)} = Roots(parent)
        /\ Len(q.ret) = get_component_number(This)

\* get_unique_ancestors has run on components of several elements whose
\* roots are not met in ascending order
C12_Witness ==
    /\ last.op = "get_unique_ancestors"
    /\ \E i, j \in Idx(n) :
         i < j /\ RootOf(parent, i) > RootOf(parent, j) /\ RootOf(parent, j) /= j

\* C13: in any reachable state get_ancestors() returns a sequence of length
\* n whose i-th entry is the root of element i, and when it returns every
\* tree has depth at most 1: parent[parent[i]] = parent[i] for every i.
C13_AncestorsAreRootsAndFlatten ==
    /\ \A q \in {get_ancestors(This, n)} :
         /\ q.status = "ok"
         /\ Len(q.ret) = n
         /\ \A i \in Idx(n) : q.ret[i + 1] = RootOf(parent, i)
         /\ \A i \in Idx(n) : q.obj.parent[q.obj.parent[i]] = q.obj.parent[i]
    /\ last.op = "get_ancestors" =>
         \A i \in Idx(n) : parent[parent[i]] = parent[i]

\* get_ancestors has run on a tree that union by rank had made two edges
\* deep
C13_Witness ==
    /\ last.op = "get_ancestors"
    /\ \E r \in Roots(parent) : rank[r] >= 2 /\ size[r] >= 3

-----------------------------------------------------------------------------
(* The decision of the spatial constructors for each pair of points.       *)

\* The pairs i < j of k points
Pairs(k) == {p \in Idx(k) \X Idx(k) : p[1] < p[2]}

\* The value a constructor reads for dimension k of point i
ReadBy(op, arr, i, k) ==
    IF op = "new_points" THEN bufAt(arr, i, k) ELSE ptrAt(arr, arr.cols, i, k)

\* The sum of the squared differences of what op reads for points i and j,
\* over all dimensions from k on, without early exit
RECURSIVE FullSum(_, _, _, _, _)
FullSum(op, arr, i, j, k) ==
    IF k >= arr.cols THEN 0
    ELSE (ReadBy(op, arr, i, k) - ReadBy(op, arr, j, k))
             * (ReadBy(op, arr, i, k) - ReadBy(op, arr, j, k))
         + FullSum(op, arr, i, j, k + 1)

\* C14: in both spatial constructors unite(i, j) is called for a pair i < j
\* exactly when the squared distance of points i and j summed over all
\* dimensions is at most the squared threshold: a pair at exactly that
\* distance is united, a pair at any larger distance is not united directly.
C14_EarlyExitDecides ==
    (last.op \in {"new_points", "new_points_shaped"} /\ last.status = "ok") =>
        last.called = {p \in Pairs(input.arr.rows) :
                          SqDist(input.arr, p[1], p[2], 0) <= input.t * input.t}

\* The part of C14 that the code keeps: the early exit never changes the
\* decision.  unite(i, j) is called exactly when the squared differences of
\* the values the constructor reads for i and j, summed over all dimensions,
\* are at most the squared threshold.
EarlyExitDecidesAsFullSum ==
    (last.op \in {"new_points", "new_points_shaped"} /\ last.status = "ok") =>
        last.called = {p \in Pairs(input.arr.rows) :
                          FullSum(last.op, input.arr, p[1], p[2], 0)
                              <= input.t * input.t}

\* Where the statement of C14 does hold: for every array whose elements lie
\* row by row in memory.
EarlyExitDecidesForRowMajorArrays ==
    input.arr.order = "C" => C14_EarlyExitDecides

-----------------------------------------------------------------------------
(* Union by rank.                                                          *)

\* The number of edges from i up to its root
Depth(P, i) ==
    CHOOSE k \in 0 .. Cardinality(DOMAIN P) :
        /\ IsRoot(P, Up(P, i, k))
        /\ \A j \in 0 .. (k - 1) : ~IsRoot(P, Up(P, i, j))

RECURSIVE Pow2(_)
Pow2(k) == IF k = 0 THEN 1 ELSE 2 * Pow2(k - 1)

\* C15: on a unite(x, y) that returns true, with rx and ry the roots of x
\* and y before it: rx goes under ry if rank[rx] < rank[ry]; ry goes under rx
\* if rank[rx] > rank[ry]; on a tie ry goes under rx and rank[rx] grows by
\* exactly 1.  The surviving root's size becomes size[rx] + size[ry], no other
\* rank or size entry changes, and no rank changes when the ranks differ.
C15_MergeByRank ==
    \A x, y \in Idx(n) :
        \A u \in {unite(This, x, y)} :
            u.ret =>
                LET rx == RootOf(parent, x)
                    ry == RootOf(parent, y)
                    after == u.obj
                IN  /\ rx /= ry
                    /\ rank[rx] < rank[ry] =>
                         /\ after.parent[rx] = ry /\ after.parent[ry] = ry
                         /\ after.size[ry] = size[rx] + size[ry]
                         /\ \A i \in Idx(n) \ {ry} : after.size[i] = size[i]
                         /\ after.rank = rank
                    /\ rank[rx] > rank[ry] =>
                         /\ after.parent[ry] = rx /\ after.parent[rx] = rx
                         /\ after.size[rx] = size[rx] + size[ry]
                         /\ \A i \in Idx(n) \ {rx} : after.size[i] = size[i]
                         /\ after.rank = rank
                    /\ rank[rx] = rank[ry] =>
                         /\ after.parent[ry] = rx /\ after.parent[rx] = rx
                         /\ after.size[rx] = size[rx] + size[ry]
                         /\ \A i \in Idx(n) \ {rx} : after.size[i] = size[i]
                         /\ after.rank[rx] = rank[rx] + 1
                         /\ \A i \in Idx(n) \ {rx} : after.rank[i] = rank[i]

\* a unite has put a root of rank 0 under a root of rank 1, and both a merge
\* of roots of different ranks and a merge on a tie can follow
C15_Witness ==
    /\ last.op = "unite" /\ last.retb
    /\ \E r \in Roots(parent) : rank[r] = 1 /\ size[r] = 3
    /\ \E x, y \in Idx(n) :
         rank[RootOf(parent, x)] < rank[RootOf(parent, y)] /\ unite(This, x, y).ret

\* C16: in every state reached by in-range calls, rank[r] of every root r
\* is an upper bound on the height of r's tree: no element of r's component
\* is more than rank[r] edges away from r.
C16_RankBoundsHeight ==
    /\ Forest(parent, n)
    /\ \A i \in Idx(n) : Depth(parent, i) <= rank[RootOf(parent, i)]

\* a find has compressed a tree of rank 2 to a height below its rank
C16_Witness ==
    /\ last.op = "find"
    /\ \E r \in Roots(parent) :
         rank[r] = 2 /\ \A i \in Members(parent, r) : Depth(parent, i) <= 1

\* C17: in every reachable state size[r] >= 2^rank[r] for every root r, so
\* no parent chain is longer than log2 of its component's size, and the
\* height of any tree is at most floor(log2 n).
C17_SizeBoundsRank ==
    /\ Forest(parent, n)
    /\ \A r \in Roots(parent) : size[r] >= Pow2(rank[r])
    /\ \A i \in Idx(n) :
         /\ Pow2(Depth(parent, i)) <= size[RootOf(parent, i)]
         /\ Pow2(Depth(parent, i)) <= n

\* a tree of height 2, on the fewest elements that allow it
C17_Witness ==
    /\ last.op = "unite" /\ last.retb
    /\ \E i \in Idx(n) : Depth(parent, i) = 2 /\ size[RootOf(parent, i)] = 4

-----------------------------------------------------------------------------
(* What find and the queries change.                                       *)

QueryOps ==
    {"find", "get_component_rank", "get_component_size", "get_component_number",
     "get_ancestors", "get_unique_ancestors"}

\* v lies on the parent chain of x
OnPath(P, x, v) == \E k \in 0 .. Cardinality(DOMAIN P) : Up(P, x, k) = v

\* From m to after only path compression has happened, on the chains of the
\* elements of from: rank, size, the count and every root are as before, and
\* an entry of parent that changed belongs to a non-root on such a chain and
\* now holds that chain's root.
OnlyCompressed(m, after, from) ==
    /\ after.rank = m.rank
    /\ after.size = m.size
    /\ after.components = m.components
    /\ DOMAIN after.parent = DOMAIN m.parent
    /\ \A i \in DOMAIN m.parent : RootOf(after.parent, i) = RootOf(m.parent, i)
    /\ \A v \in DOMAIN m.parent :
         after.parent[v] /= m.parent[v] =>
             /\ m.parent[v] /= v
             /\ \E x \in from :
                  OnPath(m.parent, x, v) /\ after.parent[v] = RootOf(m.parent, x)

\* The state after the step
ThisAfter == Obj(parent', rank', size', components')

\* C18: find and every query leave rank, size, the component count and the
\* root of every element unchanged; the only entries they may change are
\* parent[v] for non-root nodes v on a traversed path (the chain of the one
\* argument; of every element for get_ancestors and get_unique_ancestors; none
\* for get_component_number), each set to that path's root.
C18_QueriesOnlyCompress ==
    [][ last'.op \in QueryOps =>
            IF last'.op \in {"find", "get_component_rank", "get_component_size"}
            THEN \E x \in Idx(n) : OnlyCompressed(This, ThisAfter, {x})
            ELSE IF last'.op = "get_component_number"
            THEN OnlyCompressed(This, ThisAfter, {})
            ELSE OnlyCompressed(This, ThisAfter, Idx(n))
      ]_vars

\* a query has run, and the chain of some element is still two edges long,
\* so that the next find or query compresses it
C18_Witness ==
    /\ last.op \in QueryOps \ {"find"}
    /\ \E x \in Idx(n) : get_component_size(This, x).obj.parent /= parent
    /\ get_unique_ancestors(This, n).obj.parent /= parent

-----------------------------------------------------------------------------
(* The methods run statement by statement.  A thread is a stack of frames, *)
(* the innermost call last; a frame holds its method, the line it is at    *)
(* (pc) and its arguments and locals.  A statement leaves its frame on top *)
(* ("stay"), calls a method ("push") or returns a value ("pop").           *)

FindFrame(x) == [fn |-> "find", pc |-> "l134", x |-> x]

UniteFrame(x, y) == [fn |-> "unite", pc |-> "l141", x |-> x, y |-> y, rx |-> 0, ry |-> 0]

AddEdgesFrame(a, arr, b_array_size) ==
    [fn |-> "add_edges", pc |-> "l115", a |-> a, arr |-> arr,
     b_array_size |-> b_array_size, i |-> 0]

QueryFrame(fn, pc, x) == [fn |-> fn, pc |-> pc, x |-> x, i |-> 0, res |-> <<>>]

At(f, pc) == [f EXCEPT !.pc = pc]

Stay(m, f) == [act |-> "stay", obj |-> m, frame |-> f, callee |-> f, ret |-> 0]

Push(m, f, c) == [act |-> "push", obj |-> m, frame |-> f, callee |-> c, ret |-> 0]

Pop(m, f, v) == [act |-> "pop", obj |-> m, frame |-> f, callee |-> f, ret |-> v]

\* Mutant of findStep: the test of line 134 is missing, find always recurses.
findStep_noBase(m, f, ret) ==
    IF f.pc = "l134" THEN Stay(m, At(f, "l135"))
    ELSE IF f.pc = "l135" THEN Push(m, At(f, "l135_store"), FindFrame(m.parent[f.x]))
    ELSE IF f.pc = "l135_store"
    THEN Stay([m EXCEPT !.parent[f.x] = ret], At(f, "l137"))
    ELSE Pop(m, f, m.parent[f.x])

\* int find(int x), lines 133-138: the test, the nested call, the store of
\* its result, the return
findStep(m, f, ret) ==
    IF f.pc = "l134"
    THEN IF m.parent[f.x] /= f.x THEN Stay(m, At(f, "l135")) ELSE Stay(m, At(f, "l137"))
    ELSE IF f.pc = "l135" THEN Push(m, At(f, "l135_store"), FindFrame(m.parent[f.x]))
    ELSE IF f.pc = "l135_store"
    THEN Stay([m EXCEPT !.parent[f.x] = ret], At(f, "l137"))
    ELSE Pop(m, f, m.parent[f.x])

\* Mutant of uniteStep: components-- of line 158 is missing.
uniteStep_keepCount(m, f, ret) ==
    LET rx == f.rx
        ry == f.ry
    IN  CASE f.pc = "l141" -> Push(m, At(f, "l141_ret"), FindFrame(f.x))
          [] f.pc = "l141_ret" -> Stay(m, [f EXCEPT !.rx = ret, !.pc = "l142"])
          [] f.pc = "l142" -> Push(m, At(f, "l142_ret"), FindFrame(f.y))
          [] f.pc = "l142_ret" -> Stay(m, [f EXCEPT !.ry = ret, !.pc = "l144"])
          [] f.pc = "l144" -> IF rx = ry THEN Pop(m, f, FALSE) ELSE Stay(m, At(f, "l146"))
          [] f.pc = "l146" -> IF m.rank[rx] < m.rank[ry]
                              THEN Stay(m, At(f, "l147")) ELSE Stay(m, At(f, "l149"))
          [] f.pc = "l147" -> Stay([m EXCEPT !.parent[rx] = ry], At(f, "l148"))
          [] f.pc = "l148" -> Stay([m EXCEPT !.size[ry] = m.size[ry] + m.size[rx]],
                                   At(f, "l158"))
          [] f.pc = "l149" -> IF m.rank[rx] > m.rank[ry]
                              THEN Stay(m, At(f, "l150")) ELSE Stay(m, At(f, "l153"))
          [] f.pc = "l150" -> Stay([m EXCEPT !.parent[ry] = rx], At(f, "l151"))
          [] f.pc = "l151" -> Stay([m EXCEPT !.size[rx] = m.size[rx] + m.size[ry]],
                                   At(f, "l158"))
          [] f.pc = "l153" -> Stay([m EXCEPT !.parent[ry] = rx], At(f, "l154"))
          [] f.pc = "l154" -> Stay([m EXCEPT !.size[rx] = m.size[rx] + m.size[ry]],
                                   At(f, "l155"))
          [] f.pc = "l155" -> Stay([m EXCEPT !.rank[rx] = m.rank[rx] + 1], At(f, "l158"))
          [] f.pc = "l158" -> Stay(m, At(f, "l159"))
          [] OTHER -> Pop(m, f, TRUE)

\* bool unite(int x, int y), lines 140-160, one statement at a time
uniteStep(m, f, ret) ==
    LET rx == f.rx
        ry == f.ry
    IN  CASE f.pc = "l141" -> Push(m, At(f, "l141_ret"), FindFrame(f.x))
          [] f.pc = "l141_ret" -> Stay(m, [f EXCEPT !.rx = ret, !.pc = "l142"])
          [] f.pc = "l142" -> Push(m, At(f, "l142_ret"), FindFrame(f.y))
          [] f.pc = "l142_ret" -> Stay(m, [f EXCEPT !.ry = ret, !.pc = "l144"])
          [] f.pc = "l144" -> IF rx = ry THEN Pop(m, f, FALSE) ELSE Stay(m, At(f, "l146"))
          [] f.pc = "l146" -> IF m.rank[rx] < m.rank[ry]
                              THEN Stay(m, At(f, "l147")) ELSE Stay(m, At(f, "l149"))
          [] f.pc = "l147" -> Stay([m EXCEPT !.parent[rx] = ry], At(f, "l148"))
          [] f.pc = "l148" -> Stay([m EXCEPT !.size[ry] = m.size[ry] + m.size[rx]],
                                   At(f, "l158"))
          [] f.pc = "l149" -> IF m.rank[rx] > m.rank[ry]
                              THEN Stay(m, At(f, "l150")) ELSE Stay(m, At(f, "l153"))
          [] f.pc = "l150" -> Stay([m EXCEPT !.parent[ry] = rx], At(f, "l151"))
          [] f.pc = "l151" -> Stay([m EXCEPT !.size[rx] = m.size[rx] + m.size[ry]],
                                   At(f, "l158"))
          [] f.pc = "l153" -> Stay([m EXCEPT !.parent[ry] = rx], At(f, "l154"))
          [] f.pc = "l154" -> Stay([m EXCEPT !.size[rx] = m.size[rx] + m.size[ry]],
                                   At(f, "l155"))
          [] f.pc = "l155" -> Stay([m EXCEPT !.rank[rx] = m.rank[rx] + 1], At(f, "l158"))
          [] f.pc = "l158" -> Stay([m EXCEPT !.components = m.components - 1],
                                   At(f, "l159"))
          [] OTHER -> Pop(m, f, TRUE)

\* void add_edges(...), lines 113-124: the check, the loop test, the call
\* unite(a, ptr[i]), the increment.  The throw of line 116 returns "thrown".
addEdgesStep(m, f, ret) ==
    CASE f.pc = "l115" ->
            IF f.arr.ndim /= 1 \/ f.arr.shape0 /= f.b_array_size
            THEN Pop(m, f, "thrown") ELSE Stay(m, At(f, "l120"))
      [] f.pc = "l120" ->
            IF f.i < f.b_array_size THEN Stay(m, At(f, "l122")) ELSE Pop(m, f, "void")
      [] f.pc = "l122" -> Push(m, At(f, "l122_ret"), UniteFrame(f.a, f.arr.mem[f.i + 1]))
      [] OTHER -> Stay(m, [f EXCEPT !.i = f.i + 1, !.pc = "l120"])

\* The query methods, lines 162-191, one statement at a time: the loops of
\* get_ancestors and get_unique_ancestors call find(i) and keep its result.
queryStep(m, f, ret, k) ==
    CASE f.pc = "l163" -> Push(m, At(f, "l163_ret"), FindFrame(f.x))
      [] f.pc = "l163_ret" -> Pop(m, f, m.rank[ret])
      [] f.pc = "l167" -> Push(m, At(f, "l167_ret"), FindFrame(f.x))
      [] f.pc = "l167_ret" -> Pop(m, f, m.size[ret])
      [] f.pc = "l171" -> Pop(m, f, get_component_number(m))
      [] f.pc = "l178" ->
            IF f.i < k THEN Push(m, At(f, "l179_ret"), FindFrame(f.i))
            ELSE Pop(m, f, f.res)
      [] f.pc = "l179_ret" ->
            Stay(m, [f EXCEPT !.res = Append(f.res, ret), !.i = f.i + 1, !.pc = "l178"])
      [] f.pc = "l187" ->
            IF f.i < k THEN Push(m, At(f, "l188_ret"), FindFrame(f.i))
            ELSE Pop(m, f, Ascending({f.res[j] : j \in 1 .. Len(f.res)}))
      [] OTHER ->
            Stay(m, [f EXCEPT !.res = Append(f.res, ret), !.i = f.i + 1, !.pc = "l187"])

\* The statement the frame f is at
stepOf(m, f, ret, k) ==
    IF f.fn = "find" THEN findStep(m, f, ret)
    ELSE IF f.fn = "unite" THEN uniteStep(m, f, ret)
    ELSE IF f.fn = "add_edges" THEN addEdgesStep(m, f, ret)
    ELSE queryStep(m, f, ret, k)

\* A thread that runs the methods of `runs`, about to make its first call
Thread(runs) == [stack |-> <<>>, ret |-> 0, runs |-> runs]

Busy(t) == threads[t].stack /= <<>>

\* The calls a thread may make on an object of k elements
CallsOf(k) ==
    {FindFrame(x) : x \in Idx(k)}
    \cup {UniteFrame(x, y) : x, y \in Idx(k)}
    \cup {AddEdgesFrame(a, arr, arr.shape0) : a \in Idx(k), arr \in Arrays(Idx(k))}
    \cup {AddEdgesFrame(a, arr, sz) :
             a \in Idx(k), arr \in ShortArrays(Idx(k)), sz \in 0 .. MaxLen}
    \cup {QueryFrame("get_component_rank", "l163", x) : x \in Idx(k)}
    \cup {QueryFrame("get_component_size", "l167", x) : x \in Idx(k)}
    \cup {QueryFrame("get_component_number", "l171", 0),
          QueryFrame("get_ancestors", "l178", 0),
          QueryFrame("get_unique_ancestors", "l187", 0)}

\* Thread t calls a method; where the callers use the mutex, it takes it
\* first.
Begin(t, f) ==
    /\ health = "ok"
    /\ ~Busy(t)
    /\ f.fn \in threads[t].runs
    /\ lock.holder = 0
    /\ threads' = [threads EXCEPT ![t].stack = <<f>>]
    /\ lock' = IF lock.used THEN [lock EXCEPT !.holder = t] ELSE lock
    /\ UNCHANGED <<n, parent, rank, size, components, last, unions, health, input,
                   mirror>>

\* Thread t runs the statement its innermost frame is at.  A value returned
\* by a nested find is in ret for the caller's next statement, which uses
\* it (line 122 drops what unite returns).  With the return of its outermost frame the call is over, its value
\* handed to the caller of the method, and the mutex released.
Step(t) ==
    /\ Busy(t)
    /\ LET stack == threads[t].stack
           depth == Len(stack)
       IN  \E r \in {stepOf(This, stack[depth], threads[t].ret, n)} :
           /\ Store(r.obj)
           /\ threads' =
                [threads EXCEPT
                   ![t].stack =
                       IF r.act = "pop" THEN SubSeq(stack, 1, depth - 1)
                       ELSE IF r.act = "push"
                       THEN Append([stack EXCEPT ![depth] = r.frame], r.callee)
                       ELSE [stack EXCEPT ![depth] = r.frame],
                   ![t].ret = IF r.act = "pop" /\ depth > 1 /\ r.frame.fn = "find"
                              THEN r.ret ELSE 0]
           /\ unions' = IF r.act = "pop" /\ r.frame.fn = "unite" /\ r.ret = TRUE
                        THEN unions + 1 ELSE unions
           /\ lock' = IF r.act = "pop" /\ depth = 1 /\ lock.holder = t
                      THEN [lock EXCEPT !.holder = 0] ELSE lock
    /\ UNCHANGED <<n, last, health, input, mirror>>

-----------------------------------------------------------------------------
(* One thread, every method.                                               *)

AllMethods ==
    {"find", "unite", "add_edges", "get_component_rank", "get_component_size",
     "get_component_number", "get_ancestors", "get_unique_ancestors"}

InitSteps ==
    /\ NewObject
    /\ threads = <<Thread(AllMethods)>>
    /\ lock = NoMutex

NextSteps ==
    \/ \E f \in CallsOf(n) : Begin(1, f)
    \/ Step(1)

\* Nothing stops the one thread between two statements of a call.
SpecSteps == InitSteps /\ [][NextSteps]_vars /\ WF_vars(Step(1))

\* The find frames on the stack of thread t: an outer find and its nested
\* calls
FindFrames(t) ==
    Cardinality({d \in DOMAIN threads[t].stack : threads[t].stack[d].fn = "find"})

\* C19: with find run as a sequence of recursive steps, every find, unite,
\* add_edges and query call made with in-range indices in a reachable
\* single-threaded state eventually completes, and the recursion in find
\* makes at most n-1 nested calls before it reaches a root.
C19_CallsComplete ==
    /\ [](Busy(1) => FindFrames(1) <= n)
    /\ Busy(1) ~> ~Busy(1)

\* a find is three frames deep, on a chain of two edges
C19_Witness ==
    /\ Busy(1)
    /\ threads[1].stack[1].fn = "find"
    /\ FindFrames(1) = 3

-----------------------------------------------------------------------------
(* Two threads on one object: the first calls find, the second unite.      *)
(* Their statements interleave freely where the callers use no mutex;      *)
(* where they use one, a call starts only with the mutex free and holds    *)
(* it to its return.                                                       *)

\* The callers' mutex, held by nobody
FreeMutex == [used |-> TRUE, holder |-> 0]

InitRace ==
    /\ NewObject
    /\ threads = <<Thread({"find"}), Thread({"unite"})>>
    /\ lock \in {NoMutex, FreeMutex}

\* The calls of the two threads on an object of k elements: find on element
\* 0 (the methods treat every index alike, so which element the first
\* thread asks for is a matter of naming) and unite on every pair
RaceCalls(k) ==
    {FindFrame(x) : x \in Idx(k) \cap {0}}
    \cup {UniteFrame(x, y) : x, y \in Idx(k)}

\* A call starts while the count is positive: line 158 takes one off an
\* unsigned count, and the runs stop short of its wrapping.
NextRace ==
    \E t \in {1, 2} :
        \/ \E f \in RaceCalls(n) : components > 0 /\ Begin(t, f)
        \/ Step(t)

SpecRace == InitRace /\ [][NextRace]_vars

\* The Partition invariant of the claim: every element has one root and
\* there is no cycle besides the roots' self-loops, size[root] is the
\* cardinality of the root's component, the count is the number of roots.
Partition ==
    /\ Forest(parent, n)
    /\ \A r \in Roots(parent) : size[r] = Cardinality(Members(parent, r))
    /\ components = Cardinality(Roots(parent))

\* No call is running
Quiet == ~Busy(1) /\ ~Busy(2)

\* C20: where every public operation runs entirely under the one shared
\* mutex, the calls of the two threads exclude each other and no state
\* that a caller can observe (the mutex is free) violates the Partition
\* invariant; the state without the mutex, where the parent reads and
\* writes of a find and a unite interleave and leave a violation behind,
\* is C20_Witness.
C20_MutexKeepsPartition ==
    lock.used =>
        /\ ~(Busy(1) /\ Busy(2))
        /\ \A t \in {1, 2} : Busy(t) => lock.holder = t
        /\ lock.holder = 0 => (Quiet /\ Partition)

\* without the mutex: both calls have returned, and a find of the second
\* thread's unite has returned an element that is no root, so that the
\* count is below the number of roots and a size above its component
C20_Witness ==
    /\ ~lock.used
    /\ Quiet
    /\ Forest(parent, n)
    /\ components < Cardinality(Roots(parent))
    /\ \E r \in Roots(parent) : size[r] > Cardinality(Members(parent, r))

====
